---------------------------- MODULE Spec2Model ----------------------------
(***************************************************************************)
(* Carbon Sequestration Dashboard: the Streamlit script app.py and the     *)
(* CarbonSequestrationProcessor of data_processor.py, as a state machine.  *)
(*                                                                         *)
(* One behaviour is one server process: a sequence of script runs (one per *)
(* user interaction).  Each run executes app.py top to bottom; every       *)
(* blocking call to the Earth Engine service is one step whose outcome     *)
(* (success or failure) is chosen by the environment.                      *)
(***************************************************************************)
EXTENDS Integers, Sequences, FiniteSets

(* ------------------------------ bounds -------------------------------- *)

\* Days are ordinals 1..Today; Today is datetime.now() of the run.
Today == 4
\* Landsat scenes over the region; scene k was captured on day k.
MaxImages == 3
\* Script runs (user interactions) in one server process.
MaxRuns == 2

(* ------------------------- program constants -------------------------- *)

\* data_processor.py:51   carbon = ndvi.multiply(200)
CarbonFactor == 200

(* ------------------------------ values -------------------------------- *)

Dates == 1..Today
ImageIds == 1..MaxImages
CloudValues == {10, 60}
NoDate == <<>>
NoProcessor == "None"
TheProcessor == "CarbonSequestrationProcessor"

\* date.strftime('%Y-%m-%d'): the ISO text of a day, as its fields in the
\* order they are written <<year, month, day>>.  Day 1 is 2023-12-30, so
\* the days of the model straddle a month and a year boundary.
Strftime(d) ==
    IF d <= 2 THEN <<2023, 12, 29 + d>> ELSE <<2024, 1, d - 2>>

\* Order of two ISO date texts (what filterDate compares after parsing).
DateStrLess(a, b) ==
    \/ a[1] < b[1]
    \/ a[1] = b[1] /\ a[2] < b[2]
    \/ a[1] = b[1] /\ a[2] = b[2] /\ a[3] < b[3]

DateStrLeq(a, b) == a = b \/ DateStrLess(a, b)

\* st.sidebar.date_input in range mode returns a tuple of the dates picked
\* so far: one date while the user is still choosing the end, else two.
\* max_value=datetime.now() bounds every date by Today.
PickerValues ==
    {<<a>> : a \in Dates} \cup {<<a, b>> : a \in Dates, b \in Dates}

\* Capture day of scene k ('system:time_start').
DateOfImage(k) == k

\* Mean NDVI of scene k over the region, in hundredths.
MeanNdvi(k) == 15 * k

(* --------------------- CarbonSequestrationProcessor -------------------- *)

\* .filterBounds(roi).filterDate(start_date, end_date): the scenes captured
\* in [start_date, end_date), the end being exclusive.
FilterDate(start, end) ==
    {k \in ImageIds :
        /\ DateStrLeq(start, Strftime(DateOfImage(k)))
        /\ DateStrLess(Strftime(DateOfImage(k)), end)}

\* .sort('CLOUD_COVER'): ascending cloud cover; scenes of equal cloud cover
\* keep the collection's native (capture) order.
RECURSIVE SortByCloud(_, _)
SortByCloud(cc, S) ==
    IF S = {} THEN <<>>
    ELSE LET first == CHOOSE a \in S :
                 \A b \in S : cc[a] < cc[b] \/ (cc[a] = cc[b] /\ a <= b)
         IN <<first>> \o SortByCloud(cc, S \ {first})

\* get_ndvi_time_series: the NDVI collection, as the sequence of its scenes.
GetNdviTimeSeries(cc, start, end) == SortByCloud(cc, FilterDate(start, end))

\* estimate_carbon_storage: carbon = ndvi.multiply(200)
EstimateCarbonStorage(ndvi) == ndvi * CarbonFactor

RECURSIVE SumNdvi(_)
SumNdvi(series) ==
    IF series = <<>> THEN 0 ELSE MeanNdvi(Head(series)) + SumNdvi(Tail(series))

\* get_area_statistics(...).getInfo(): the dictionary of the reduction of the
\* temporal mean; the mean of an empty collection has no band, so no key.
AreaStatistics(series) ==
    IF series = <<>> THEN <<>>
    ELSE [NDVI |-> EstimateCarbonStorage(SumNdvi(series) \div Len(series))]

\* Variant of LoopContinues: the loop stops one image short.
LoopStopsEarly(idx, cnt) == idx < cnt - 1

\* for i in range(count): the loop goes on while i < count.
LoopContinues(idx, cnt) == idx < cnt

\* ee.Image(ndvi_series.toList(count).get(i)): the scene at 0-based index i.
ImageAt(series, idx) == series[idx + 1]

\* Variant of NextIndex: every other image is skipped.
SkipIndex(idx) == idx + 2

\* The loop variable's next value.
NextIndex(idx) == idx + 1

RECURSIVE Rows(_, _)
\* pd.DataFrame({'Date': dates, 'Carbon_Storage': carbon_values})
Rows(ds, cs) ==
    IF ds = <<>> \/ cs = <<>> THEN <<>>
    ELSE <<[Date |-> Head(ds), Carbon_Storage |-> Head(cs)]>>
             \o Rows(Tail(ds), Tail(cs))

(* ------------------------------- state -------------------------------- *)

VARIABLES
    processor,      \* st.cache_resource entry of init_processor
    built,          \* successful CarbonSequestrationProcessor() constructions
    run,            \* number of the current script run
    cloud_cover,    \* CLOUD_COVER of each scene of the remote collection
    pc,             \* position of the current run in app.py
    date_range,     \* value of the date picker in this run
    start_date,     \* app.py:86
    end_date,       \* app.py:85
    log,            \* blocking calls to the service made in this run
    queries,        \* get_ndvi_time_series calls made in this run
    shown,          \* elements displayed in this run
    raised,         \* places where an exception was raised in this run
    count,          \* create_time_series_data: count
    i,              \* create_time_series_data: loop index
    date,           \* create_time_series_data: date of the current image
    dates,          \* create_time_series_data: dates
    carbon_values,  \* create_time_series_data: carbon_values
    df              \* app.py:139, the returned frame

procVars == <<processor, built, run, cloud_cover>>
inputVars == <<date_range, start_date, end_date>>
tsVars == <<count, i, date, dates, carbon_values, df>>
vars == <<processor, built, run, cloud_cover, pc, date_range, start_date,
          end_date, log, queries, shown, raised, count, i, date, dates,
          carbon_values, df>>

NoFrame == [set |-> FALSE, rows |-> <<>>]

\* What a script run starts from: nothing of the previous run.
FreshRun ==
    /\ pc = "startup"
    /\ date_range = <<>>
    /\ start_date = NoDate
    /\ end_date = NoDate
    /\ log = <<>>
    /\ queries = <<>>
    /\ shown = {}
    /\ raised = {}
    /\ count = 0
    /\ i = 0
    /\ date = NoDate
    /\ dates = <<>>
    /\ carbon_values = <<>>
    /\ df = NoFrame

Init ==
    /\ processor = NoProcessor
    /\ built = 0
    /\ run = 1
    /\ cloud_cover \in [ImageIds -> CloudValues]
    /\ FreshRun

\* One blocking call to the service, and how it ended.
Call(op, site, idx, img, ok) ==
    log' = Append(log, [op |-> op, site |-> site, idx |-> idx, img |-> img,
                        ok |-> ok])

\* One query built by get_ndvi_time_series for a view.
Query(site) ==
    queries' = Append(queries, [site |-> site, start |-> start_date,
                                end |-> end_date])

\* The collection the service evaluates for this run's dates.
Series == GetNdviTimeSeries(cloud_cover, start_date, end_date)

(* --------------------------- app.py: startup --------------------------- *)

\* Variant of StartupExcept: the message is shown but st.stop() is missing.
StartupExceptNoStop ==
    /\ raised' = raised \cup {"startup"}
    /\ shown' = shown \cup {"auth_error"}
    /\ pc' = "page"

\* initialize_earth_engine, except branch: st.error(setup text); st.stop()
StartupExcept ==
    /\ raised' = raised \cup {"startup"}
    /\ shown' = shown \cup {"auth_error"}
    /\ pc' = "stopped"

\* initialize_earth_engine(): ee.Initialize() of every script run.
InitializeEarthEngine ==
    /\ pc = "startup"
    /\ \E ok \in BOOLEAN :
        /\ Call("Initialize", "startup", 0, 0, ok)
        /\ IF ok
           THEN /\ pc' = "page"
                /\ UNCHANGED <<raised, shown>>
           ELSE StartupExcept
    /\ UNCHANGED <<procVars, inputVars, queries, tsVars>>

\* st.set_page_config, st.title, st.markdown, roi, st.sidebar.date_input.
ReadDateRange ==
    /\ pc = "page"
    /\ \E v \in PickerValues : date_range' = v
    /\ shown' = shown \cup {"title"}
    /\ pc' = "init_processor"
    /\ UNCHANGED <<procVars, start_date, end_date, log, queries, raised,
                   tsVars>>

\* Variant of CacheStore: init_processor without @st.cache_resource.
CacheStoreNothing(p) == NoProcessor

\* @st.cache_resource: what the cache holds after init_processor returned p.
CacheStore(p) == p

\* except around init_processor(): st.error, st.info, st.stop()
InitProcessorExcept ==
    /\ raised' = raised \cup {"ctor"}
    /\ shown' = shown \cup {"init_error", "init_info"}
    /\ pc' = "stopped"

\* processor = init_processor(), the cache holding the processor.
InitProcessorCached ==
    /\ pc = "init_processor"
    /\ processor # NoProcessor
    /\ pc' = "col1"
    /\ UNCHANGED <<procVars, inputVars, log, queries, shown, raised, tsVars>>

\* __init__ returned: init_processor returns and the cache keeps the object.
Constructed ==
    /\ processor' = CacheStore(TheProcessor)
    /\ built' = built + 1
    /\ pc' = "col1"
    /\ UNCHANGED <<raised, shown>>

\* processor = init_processor(), cache empty: __init__, first ee.Initialize().
CtorInitialize ==
    /\ pc = "init_processor"
    /\ processor = NoProcessor
    /\ \E ok \in BOOLEAN :
        /\ Call("Initialize", "ctor", 0, 0, ok)
        /\ IF ok
           THEN Constructed
           ELSE /\ pc' = "ctor_authenticate"
                /\ UNCHANGED <<processor, built, raised, shown>>
    /\ UNCHANGED <<run, cloud_cover, inputVars, queries, tsVars>>

\* __init__, bare except: ee.Authenticate(); its failure leaves __init__.
CtorAuthenticate ==
    /\ pc = "ctor_authenticate"
    /\ \E ok \in BOOLEAN :
        /\ Call("Authenticate", "ctor", 0, 0, ok)
        /\ IF ok
           THEN /\ pc' = "ctor_initialize"
                /\ UNCHANGED <<raised, shown>>
           ELSE InitProcessorExcept
    /\ UNCHANGED <<procVars, inputVars, queries, tsVars>>

\* Variant of CtorSecondInitializeFailed: the constructor tries again.
CtorSecondInitializeRetried ==
    /\ pc' = "ctor_authenticate"
    /\ UNCHANGED <<processor, built, raised, shown>>

\* __init__, inner except of the second attempt: print(...); raise
CtorSecondInitializeFailed == InitProcessorExcept /\ UNCHANGED <<processor, built>>

\* __init__: the ee.Initialize() that follows ee.Authenticate().
CtorInitializeAgain ==
    /\ pc = "ctor_initialize"
    /\ \E ok \in BOOLEAN :
        /\ Call("Initialize", "ctor", 0, 0, ok)
        /\ IF ok THEN Constructed ELSE CtorSecondInitializeFailed
    /\ UNCHANGED <<run, cloud_cover, inputVars, queries, tsVars>>

(* --------------------------- app.py: map view -------------------------- *)

\* with col1: subheader; end_date = date_range[1].strftime(...);
\* start_date = date_range[0].strftime(...).  Both outside any try: a
\* one-date tuple has no date_range[1] and the IndexError ends the run.
Col1Dates ==
    /\ pc = "col1"
    /\ IF Len(date_range) < 2
       THEN /\ raised' = raised \cup {"col1"}
            /\ shown' = shown \cup {"map_header"}
            /\ pc' = "crashed"
            /\ UNCHANGED <<start_date, end_date>>
       ELSE /\ end_date' = Strftime(date_range[2])
            /\ start_date' = Strftime(date_range[1])
            /\ shown' = shown \cup {"map_header"}
            /\ pc' = "map"
            /\ UNCHANGED raised
    /\ UNCHANGED <<procVars, date_range, log, queries, tsVars>>

\* Variant of MapExcept: the map view has no try/except.
MapExceptUncaught ==
    /\ raised' = raised \cup {"map"}
    /\ shown' = shown
    /\ pc' = "crashed"

\* except of the map view: st.error("Error generating map: ...")
MapExcept ==
    /\ raised' = raised \cup {"map"}
    /\ shown' = shown \cup {"map_error"}
    /\ pc' = "col2"

\* get_ndvi_time_series, mean, estimate_carbon_storage, geemap.Map,
\* Map.addLayer(carbon_storage, ...): the layer's tiles are asked of the service.
MapCarbonLayer ==
    /\ pc = "map"
    /\ Query("map")
    /\ \E ok \in BOOLEAN :
        /\ Call("getMapId", "map", 0, 0, ok)
        /\ IF ok
           THEN /\ pc' = "map_roi"
                /\ UNCHANGED <<raised, shown>>
           ELSE MapExcept
    /\ UNCHANGED <<procVars, inputVars, tsVars>>

\* Map.addLayer(roi, ...); Map.to_streamlit(height=400)
MapRoiLayer ==
    /\ pc = "map_roi"
    /\ \E ok \in BOOLEAN :
        /\ Call("getMapId", "map", 1, 0, ok)
        /\ IF ok
           THEN /\ shown' = shown \cup {"map"}
                /\ pc' = "col2"
                /\ UNCHANGED raised
           ELSE MapExcept
    /\ UNCHANGED <<procVars, inputVars, queries, tsVars>>

(* ------------------------ app.py: statistics view ---------------------- *)

\* except of the statistics view: st.error("Error calculating statistics")
StatsExcept ==
    /\ raised' = raised \cup {"stats"}
    /\ shown' = shown \cup {"stats_error"}
    /\ pc' = "ts"

\* with col2: stats = get_area_statistics(...); stats.getInfo();
\* st.metric("Average Carbon Storage", stats_dict['NDVI']), a KeyError when
\* the dictionary has no 'NDVI'.
StatsGetInfo ==
    /\ pc = "col2"
    /\ Query("stats")
    /\ \E ok \in BOOLEAN :
        /\ Call("stats.getInfo", "stats", 0, 0, ok)
        /\ IF ok /\ "NDVI" \in DOMAIN AreaStatistics(Series)
           THEN /\ shown' = shown \cup {"metric_average"}
                /\ pc' = "col2_area"
                /\ UNCHANGED raised
           ELSE StatsExcept
    /\ UNCHANGED <<procVars, inputVars, tsVars>>

\* area = roi.area().getInfo() / 10000; st.metric("Total Carbon Storage")
StatsArea ==
    /\ pc = "col2_area"
    /\ \E ok \in BOOLEAN :
        /\ Call("area.getInfo", "stats", 0, 0, ok)
        /\ IF ok
           THEN /\ shown' = shown \cup {"metric_total"}
                /\ pc' = "ts"
                /\ UNCHANGED raised
           ELSE StatsExcept
    /\ UNCHANGED <<procVars, inputVars, queries, tsVars>>

(* ------------------------ app.py: time series view --------------------- *)

\* except of the time series view: st.error("Error generating time series")
TsExcept ==
    /\ raised' = raised \cup {"ts"}
    /\ shown' = shown \cup {"ts_error"}
    /\ pc' = "footer"

\* create_time_series_data: get_ndvi_time_series; dates = []; carbon_values = [];
\* count = ndvi_series.size().getInfo()
TsSize ==
    /\ pc = "ts"
    /\ Query("ts")
    /\ \E ok \in BOOLEAN :
        /\ Call("size.getInfo", "ts", 0, 0, ok)
        /\ IF ok
           THEN /\ count' = Len(Series)
                /\ pc' = "ts_loop"
                /\ UNCHANGED <<raised, shown>>
           ELSE /\ TsExcept
                /\ UNCHANGED count
    /\ i' = 0
    /\ dates' = <<>>
    /\ carbon_values' = <<>>
    /\ UNCHANGED <<procVars, inputVars, date, df>>

\* Variant of LoopCallFailed: the loop catches the error and the function
\* returns the rows collected so far.
LoopCallFailedPartial ==
    /\ df' = [set |-> TRUE, rows |-> Rows(dates, carbon_values)]
    /\ pc' = "ts_plot"
    /\ UNCHANGED <<raised, shown>>

\* A remote call of the loop body raises: nothing in create_time_series_data
\* catches it, so it leaves the function and reaches the view's except.
LoopCallFailed ==
    /\ TsExcept
    /\ UNCHANGED df

\* Loop body, first call: ee.Date(image.get('system:time_start'))
\*     .format('YYYY-MM-dd').getInfo()
TsDate ==
    /\ pc = "ts_loop"
    /\ LoopContinues(i, count)
    /\ \E ok \in BOOLEAN :
        /\ Call("date.getInfo", "ts", i, ImageAt(Series, i), ok)
        /\ IF ok
           THEN /\ date' = Strftime(DateOfImage(ImageAt(Series, i)))
                /\ pc' = "ts_reduce"
                /\ UNCHANGED <<raised, shown, df>>
           ELSE /\ LoopCallFailed
                /\ UNCHANGED date
    /\ UNCHANGED <<procVars, inputVars, queries, count, i, dates,
                   carbon_values>>

\* Loop body, second call: carbon.reduceRegion(...); dates.append(date);
\* carbon_values.append(stats.getInfo()['NDVI'])
TsReduce ==
    /\ pc = "ts_reduce"
    /\ \E ok \in BOOLEAN :
        /\ Call("reduce.getInfo", "ts", i, ImageAt(Series, i), ok)
        /\ IF ok
           THEN /\ dates' = Append(dates, date)
                /\ carbon_values' = Append(carbon_values,
                       EstimateCarbonStorage(MeanNdvi(ImageAt(Series, i))))
                /\ i' = NextIndex(i)
                /\ pc' = "ts_loop"
                /\ UNCHANGED <<raised, shown, df>>
           ELSE /\ LoopCallFailed
                /\ dates' = Append(dates, date)
                /\ UNCHANGED <<carbon_values, i>>
    /\ UNCHANGED <<procVars, inputVars, queries, count, date>>

\* The loop is over: df = pd.DataFrame(...); return df
TsReturn ==
    /\ pc = "ts_loop"
    /\ ~LoopContinues(i, count)
    /\ df' = [set |-> TRUE, rows |-> Rows(dates, carbon_values)]
    /\ pc' = "ts_plot"
    /\ UNCHANGED <<procVars, inputVars, log, queries, shown, raised, count, i,
                   date, dates, carbon_values>>

\* fig = px.line(df, x='Date', y='Carbon_Storage'); st.plotly_chart(fig)
TsPlot ==
    /\ pc = "ts_plot"
    /\ shown' = shown \cup {"chart"}
    /\ pc' = "footer"
    /\ UNCHANGED <<procVars, inputVars, log, queries, raised, tsVars>>

(* ------------------------------ app.py: end ---------------------------- *)

\* st.markdown("---"); st.markdown(footer)
Footer ==
    /\ pc = "footer"
    /\ shown' = shown \cup {"footer"}
    /\ pc' = "done"
    /\ UNCHANGED <<procVars, inputVars, log, queries, raised, tsVars>>

Ended == pc \in {"done", "stopped", "crashed"}

\* The next user interaction: Streamlit runs the script again from its first
\* line; only the st.cache_resource entry outlives the run.
Rerun ==
    /\ Ended
    /\ run < MaxRuns
    /\ run' = run + 1
    /\ pc' = "startup"
    /\ date_range' = <<>>
    /\ start_date' = NoDate
    /\ end_date' = NoDate
    /\ log' = <<>>
    /\ queries' = <<>>
    /\ shown' = {}
    /\ raised' = {}
    /\ count' = 0
    /\ i' = 0
    /\ date' = NoDate
    /\ dates' = <<>>
    /\ carbon_values' = <<>>
    /\ df' = NoFrame
    /\ UNCHANGED <<processor, built, cloud_cover>>

Next ==
    \/ InitializeEarthEngine
    \/ ReadDateRange
    \/ InitProcessorCached
    \/ CtorInitialize
    \/ CtorAuthenticate
    \/ CtorInitializeAgain
    \/ Col1Dates
    \/ MapCarbonLayer
    \/ MapRoiLayer
    \/ StatsGetInfo
    \/ StatsArea
    \/ TsSize
    \/ TsDate
    \/ TsReduce
    \/ TsReturn
    \/ TsPlot
    \/ Footer
    \/ Rerun

Spec == Init /\ [][Next]_vars

(* ------------------------------ properties ----------------------------- *)

\* The view whose path built a query with get_ndvi_time_series was attempted.
Attempted(site) == \E k \in DOMAIN queries : queries[k].site = site

MapFinished == Attempted("map") /\ ("map" \in shown \/ "map_error" \in shown)
StatsFinished ==
    Attempted("stats") /\ ("metric_total" \in shown \/ "stats_error" \in shown)
TsFinished == Attempted("ts") /\ ("chart" \in shown \/ "ts_error" \in shown)

ViewElements ==
    {"map_header", "map", "map_error", "metric_average", "metric_total",
     "stats_error", "chart", "ts_error", "footer"}

\* The blocking calls of create_time_series_data, in the order made.
IsTsCall(e) == e.site = "ts"
TsLog == SelectSeq(log, IsTsCall)

\* Two log entries are the same remote operation.
SameOperation(a, b) == a.op = b.op /\ a.idx = b.idx

\* C1: fault isolation between views.  In a run that has ended, if the map
\* view's try body raised, the map's inline error is shown and the statistics
\* view and the time-series view were both attempted and ran to their end
\* (rendered or inline error); likewise a failure of the statistics view or
\* of the time-series view leaves the other two attempted and finished.
C1_FaultIsolation ==
    Ended =>
        /\ "map" \in raised =>
              "map_error" \in shown /\ StatsFinished /\ TsFinished
        /\ "stats" \in raised =>
              "stats_error" \in shown /\ MapFinished /\ TsFinished
        /\ "ts" \in raised =>
              "ts_error" \in shown /\ MapFinished /\ StatsFinished

\* C1 witness: a finished run whose map failed while both metrics and the
\* chart were rendered.
C1_Witness ==
    /\ pc = "done"
    /\ "map" \in raised
    /\ "map_error" \in shown
    /\ "metric_total" \in shown
    /\ "chart" \in shown

\* C2: when every remote call of create_time_series_data succeeded and the
\* function is over, it has returned a frame with exactly one row per image
\* of the remote query's window (none skipped, none twice) and raised
\* nothing; for an empty window that frame is empty.
C2_LengthEqualsImageCount ==
    (/\ pc \in {"ts_plot", "footer", "done"}
     /\ TsLog # <<>>
     /\ \A k \in DOMAIN TsLog : TsLog[k].ok)
    =>
        /\ df.set
        /\ "ts" \notin raised
        /\ Len(df.rows) = Cardinality(FilterDate(start_date, end_date))
        /\ {df.rows[k].Date : k \in DOMAIN df.rows}
              = {Strftime(DateOfImage(m)) : m \in FilterDate(start_date, end_date)}

\* C2 witness: a returned frame with one row for each of at least two images.
C2_Witness ==
    /\ df.set
    /\ Len(df.rows) >= 2
    /\ Len(df.rows) = Cardinality(FilterDate(start_date, end_date))

\* C3: every query issued by get_ndvi_time_series has start <= end and
\* end <= the current date; no query is built from a range with start > end.
C3_NoInvertedQuery ==
    \A k \in DOMAIN queries :
        /\ DateStrLeq(queries[k].start, queries[k].end)
        /\ DateStrLeq(queries[k].end, Strftime(Today))

\* C4: a failure of the startup initialization (ee.Initialize of
\* initialize_earth_engine, or the processor construction) shows its message
\* and stops the run: no view element is displayed, no query is built and no
\* remote call of any view is made in that run.
C4_StartupFailureHalts ==
    ("startup" \in raised \/ "ctor" \in raised) =>
        /\ pc = "stopped"
        /\ "startup" \in raised => "auth_error" \in shown
        /\ "ctor" \in raised => {"init_error", "init_info"} \subseteq shown
        /\ shown \cap ViewElements = {}
        /\ queries = <<>>
        /\ \A k \in DOMAIN log : log[k].site \in {"startup", "ctor"}

\* C4 witness: the constructor failed after ee.Authenticate and the run stopped.
C4_Witness ==
    /\ pc = "stopped"
    /\ "ctor" \in raised
    /\ "init_error" \in shown
    /\ Len(log) = 4

\* C5: the rows of the plotted time series are in chronological order.
C5_ChartChronological ==
    "chart" \in shown =>
        \A k \in 1..(Len(df.rows) - 1) :
            DateStrLeq(df.rows[k].Date, df.rows[k + 1].Date)

\* C6: once startup authentication succeeded, every run that ends has
\* reached the footer: no error of a view ends the run.
C6_EveryRunReachesFooter ==
    (Ended /\ raised \cap {"startup", "ctor"} = {}) =>
        pc = "done" /\ "footer" \in shown

\* C7: all-or-nothing time series.  If a remote call of the per-image loop
\* failed, no frame was returned and no chart plotted, the time-series error
\* is shown, and the failed call is the last call the run made.
C7_AllOrNothing ==
    \A k \in DOMAIN log :
        (/\ log[k].site = "ts"
         /\ log[k].op \in {"date.getInfo", "reduce.getInfo"}
         /\ ~log[k].ok)
        =>
            /\ ~df.set
            /\ "chart" \notin shown
            /\ "ts_error" \in shown
            /\ k = Len(log)
            /\ pc \in {"footer", "done"}

\* C7 witness: the loop failed after at least one image had been reduced.
C7_Witness ==
    /\ "ts_error" \in shown
    /\ Len(carbon_values) >= 1
    /\ ~log[Len(log)].ok
    /\ log[Len(log)].op = "reduce.getInfo"
    /\ ~df.set

\* The k-th blocking call of create_time_series_data as the code orders them:
\* the count, then for each image its date and then its reduction.
ExpectedTsCall(k) ==
    IF k = 1 THEN [op |-> "size.getInfo", idx |-> 0, img |-> 0]
    ELSE [op |-> IF (k - 2) % 2 = 0 THEN "date.getInfo" ELSE "reduce.getInfo",
          idx |-> (k - 2) \div 2,
          img |-> Series[((k - 2) \div 2) + 1]]

\* C8 as stated: a completed create_time_series_data made 2 x N round-trips.
C8_TwoNRoundTrips ==
    df.set => Len(TsLog) = 2 * Len(Series)

\* C8 amended: create_time_series_data makes its calls one at a time in the
\* order count, date(0), reduce(0), date(1), reduce(1), ... over the images
\* in series order, each call made only after every earlier one succeeded,
\* and a completed call has made 1 + 2 x N round-trips.
C8_RoundTripsInOrder ==
    /\ \A k \in DOMAIN TsLog :
        /\ (k - 2) \div 2 < Len(Series)
        /\ TsLog[k].op = ExpectedTsCall(k).op
        /\ TsLog[k].idx = ExpectedTsCall(k).idx
        /\ TsLog[k].img = ExpectedTsCall(k).img
        /\ k < Len(TsLog) => TsLog[k].ok
    /\ df.set => Len(TsLog) = 1 + 2 * Len(Series)

\* C8 witness: a completed series over three images, seven round-trips.
C8_Witness ==
    /\ df.set
    /\ Len(Series) = 3
    /\ Len(TsLog) = 7

\* C9 as stated: after a call to the service failed, the same call is never
\* attempted again in the run.
C9_NoRetries ==
    \A j \in DOMAIN log : \A k \in DOMAIN log :
        (j < k /\ ~log[j].ok) => ~SameOperation(log[j], log[k])

\* C9 amended: the only retry is in the processor's constructor, where a
\* failed ee.Initialize is followed by a successful ee.Authenticate and one
\* more ee.Initialize; a failure at startup or in a view is never retried,
\* and every remote operation other than ee.Initialize is attempted at most
\* once per run (ee.Initialize: once at startup, at most twice in the
\* constructor).
C9_RetryOnlyInConstructor ==
    /\ \A j \in DOMAIN log : \A k \in DOMAIN log :
        (j < k /\ SameOperation(log[j], log[k])) =>
            /\ log[j].op = "Initialize"
            /\ log[k].site = "ctor"
            /\ ~log[j].ok =>
                  /\ log[j].site = "ctor"
                  /\ k = j + 2
                  /\ log[j + 1].op = "Authenticate"
                  /\ log[j + 1].ok
    /\ Cardinality({k \in DOMAIN log :
                       log[k].op = "Initialize" /\ log[k].site = "ctor"}) <= 2
    /\ Cardinality({k \in DOMAIN log : log[k].site = "startup"}) <= 1

\* C9 witness: the constructor's retry succeeded, a view's call failed later,
\* and the run reached its end without a further attempt.
C9_Witness ==
    /\ pc = "done"
    /\ raised # {}
    /\ \E j \in DOMAIN log :
        /\ log[j].site = "ctor" /\ log[j].op = "Initialize" /\ ~log[j].ok
        /\ j + 2 \in DOMAIN log
        /\ log[j + 2].site = "ctor" /\ log[j + 2].op = "Initialize"
        /\ log[j + 2].ok

\* A step appends one ee.Initialize to the run's calls.
InitializeCalled ==
    /\ Len(log') = Len(log) + 1
    /\ log'[Len(log')].op = "Initialize"

\* C10 as stated: once the processor has been constructed, no later step
\* constructs it again or initializes the service connection again.
C10_NeverInitializedAgain ==
    [][processor # NoProcessor => (built' = built /\ ~InitializeCalled)]_vars

\* C10 amended: the processor is constructed successfully at most once per
\* process and the cache keeps it; a run that finds it cached makes no call of
\* the constructor (a constructor call in a run's log means the processor
\* was built in this very run); every run starts from nothing but the cache.
\* (ee.Initialize of initialize_earth_engine still runs in every interaction.)
C10_ConstructedOnce ==
    /\ built <= 1
    /\ built = 1 <=> processor = TheProcessor
    /\ (built = 1 /\ \E k \in DOMAIN log : log[k].site = "ctor") =>
          \E k \in DOMAIN log :
              /\ log[k].site = "ctor" /\ log[k].op = "Initialize" /\ log[k].ok
              /\ \A m \in DOMAIN log : log[m].site = "ctor" => m <= k
    /\ pc = "startup" => FreshRun

\* C10 witness: a later interaction ran to its end on the cached processor,
\* after initializing the service again at startup and without a constructor
\* call.
C10_Witness ==
    /\ run >= 2
    /\ pc = "done"
    /\ processor = TheProcessor
    /\ log[1].op = "Initialize" /\ log[1].site = "startup"
    /\ \A k \in DOMAIN log : log[k].site # "ctor"

=============================================================================
